---- MODULE Spec2Model ----
(***************************************************************************)
(* Model of app/db/models/builds/queries.server.ts: the build persistence  *)
(* layer (create, updateByReplacing, deleteById, the list queries and the  *)
(* ability-matrix / mode-set codecs).                                      *)
(*                                                                         *)
(* JavaScript values are modelled as follows.  A nullable value is either  *)
(* NULL or a record wrapping the value ([array |-> ...], [text |-> ...]).  *)
(* A JSON text is a sequence of string tokens, e.g. ["TW","SZ"] is         *)
(* << "[", "\"TW\"", ",", "\"SZ\"", "]" >>.                                *)
(***************************************************************************)
EXTENDS Integers, Sequences, FiniteSets, TLC

VARIABLES
    tblBuild,          \* table "Build": set of rows
    tblBuildWeapon,    \* table "BuildWeapon": rows in insertion order
    tblBuildAbility,   \* table "BuildAbility": rows in insertion order
    tx,                \* open transaction / savepoints, innermost last
    stack,             \* call stack of the request thread: <<[fn, pc]>>
    build,             \* argument of the running create / updateByReplacing
    createdBuild,      \* create's local: row returned by createBuildStm.get
    weaponI,           \* create's weapon loop position (0-based)
    rowI,              \* create's ability loop: row position (0-based)
    abilityI,          \* create's ability loop: cell position (0-based)
    pre,               \* storage as it was when the running/last call began
    outcome,           \* how the last write call ended
    readResult,        \* what the last read call returned
    readRaw,           \* the raw rows the last read query produced
    cAbilities,        \* codec harness: input of dbAbilitiesToArrayOfArrays
    cMatrix,           \* codec harness: the matrix the cells were encoded from
    cEdits,            \* harnesses: cells added/removed so far
    cResult,           \* codec harness: result of the decode
    mModes,            \* mode harness: input modes of create
    mStored,           \* mode harness: value create passes as "modes"
    mRead              \* mode harness: modes augmentBuild returns for the stored value

dbvars == <<tblBuild, tblBuildWeapon, tblBuildAbility>>
ctlvars == <<tx, stack, build, createdBuild, weaponI, rowI, abilityI>>
obsvars == <<pre, outcome, readResult, readRaw>>
codecvars == <<cAbilities, cMatrix, cEdits, cResult>>
modevars == <<mModes, mStored, mRead>>
vars == <<dbvars, ctlvars, obsvars, codecvars, modevars>>

----------------------------------------------------------------------------
(* JavaScript / SQL values *)

NULL == [isNull |-> TRUE]
Undefined == [isUndefined |-> TRUE]

Range(s) == {s[i] : i \in 1..Len(s)}

\* Array.prototype.indexOf: 0-based position of the first occurrence, or -1.
IndexOf(arr, x) ==
    IF \E i \in 1..Len(arr) : arr[i] = x
    THEN (CHOOSE i \in 1..Len(arr) : arr[i] = x /\ \A j \in 1..(i - 1) : arr[j] # x) - 1
    ELSE -1

\* Array.prototype.sort with a comparator, cmp[i, j] being the comparator's value
\* on the elements at positions i and j: stable, so element i lands after every
\* element that compares lower and every equal element that preceded it.
\* (s \o <<>> is s itself: it makes TLC evaluate a sequence once instead of at each use.)
ArraySort(arr, cmp) ==
    LET a == arr \o <<>>
        rank == [i \in 1..Len(a) |->
                    Cardinality({j \in 1..Len(a) :
                        \/ cmp[j, i] < 0
                        \/ (cmp[j, i] = 0 /\ j < i)}) + 1] \o <<>>
    IN  [r \in 1..Len(a) |-> a[CHOOSE i \in 1..Len(a) : rank[i] = r]] \o <<>>

----------------------------------------------------------------------------
(* JSON texts as token sequences *)

Quote(s) == "\"" \o s \o "\""

RECURSIVE JoinTexts(_)
JoinTexts(texts) ==
    IF Len(texts) = 0 THEN <<>>
    ELSE IF Len(texts) = 1 THEN texts[1]
    ELSE texts[1] \o <<",">> \o JoinTexts(Tail(texts))

JsonArrayText(texts) == <<"[">> \o JoinTexts(texts \o <<>>) \o <<"]">>

JsonObjectText(keys, vals) ==
    <<"{">> \o JoinTexts([i \in 1..Len(keys) |-> <<Quote(keys[i]), ":", vals[i]>>]) \o <<"}">>

\* JSON.stringify of an array of strings
JSON_stringify(arr) == JsonArrayText([i \in 1..Len(arr) |-> <<Quote(arr[i])>>])

\* The element texts of a JSON array whose elements are each `width` tokens long.
JsonArrayElems(text, width) ==
    LET n == IF Len(text) <= 2 THEN 0 ELSE (Len(text) - 1) \div (width + 1)
    IN  [i \in 1..n |-> SubSeq(text, 2 + (i - 1) * (width + 1),
                                     1 + (i - 1) * (width + 1) + width)] \o <<>>

\* The value token of property `key` in a flat JSON object text.
JsonField(obj, key) ==
    LET p == CHOOSE p \in 1..(Len(obj) - 2) : obj[p] = Quote(key) /\ obj[p + 1] = ":"
    IN  obj[p + 2]

\* Tokens of a flat object with n properties: { k : v , k : v , ... }
ObjectWidth(n) == 4 * n + 1

----------------------------------------------------------------------------
(* Catalog (~/modules/in-game-lists) *)

modesShort == <<"TW", "SZ", "TC", "RM", "CB">>

Abilities == {"ISM", "ISS", "IRU", "RSU", "SSU", "SCU", "SS", "SPU",
              "QR", "QSJ", "BRU", "RES", "UNKNOWN"}

WeaponIds == {40, 45, 1200}

\* weaponIdToAltId: 40 and 45 are two identifiers of the same weapon.
weaponIdToAltId == [w \in {40, 45} |-> IF w = 40 THEN 45 ELSE 40]

GearTypes == {"HEAD", "CLOTHES", "SHOES"}

JsonString(tok, domain) == CHOOSE s \in domain : Quote(s) = tok
JsonNumber(tok) == CHOOSE n \in WeaponIds \cup (-1..12) : ToString(n) = tok

----------------------------------------------------------------------------
(* AbilityMatrixCodec *)

gearOrder == <<"HEAD", "CLOTHES", "SHOES">>

AbilityCount == 12

\* create, lines 72-73: the gear type of matrix row rowI
gearTypeOf_swapped(r) == IF r = 0 THEN "HEAD" ELSE IF r = 1 THEN "SHOES" ELSE "CLOTHES"
gearTypeOf_twoWay(r) == IF r = 0 THEN "HEAD" ELSE "CLOTHES"
gearTypeOf(r) == IF r = 0 THEN "HEAD" ELSE IF r = 1 THEN "CLOTHES" ELSE "SHOES"

\* The parameters of the (r, a)-th createBuildAbilityStm.run of create (0-based).
abilityParams_inputId(buildId, abilities, r, a) ==
    [buildId |-> 0, gearType |-> gearTypeOf(r),
     ability |-> abilities[r + 1][a + 1], slotIndex |-> a]
abilityParams(buildId, abilities, r, a) ==
    [buildId |-> buildId, gearType |-> gearTypeOf(r),
     ability |-> abilities[r + 1][a + 1], slotIndex |-> a]

\* The cells create's nested loops emit for a matrix, in emission order.
encodedCells(abilities) ==
    [k \in 1..(Len(abilities) * 4) |->
        LET p == abilityParams(0, abilities, (k - 1) \div 4, (k - 1) % 4)
        IN  [ability |-> p.ability, gearType |-> p.gearType, slotIndex |-> p.slotIndex]]

\* comparator of dbAbilitiesToArrayOfArrays, lines 191-195
abilityCmp_alphabetic(a, b) ==
    IF a.gearType = b.gearType THEN a.slotIndex - b.slotIndex
    ELSE IF a.gearType = "CLOTHES" THEN -1
    ELSE IF b.gearType = "CLOTHES" THEN 1
    ELSE IF a.gearType = "HEAD" THEN -1 ELSE 1
abilityCmp(a, b) ==
    IF a.gearType = b.gearType THEN a.slotIndex - b.slotIndex
    ELSE IndexOf(gearOrder, a.gearType) - IndexOf(gearOrder, b.gearType)

ShapeError == [threw |-> TRUE, message |-> "expected 12 abilities"]

\* invariant(sorted.length === 12, ...), line 198
shapeOk_atLeast(n) == n >= AbilityCount
shapeOk(n) == n = AbilityCount

dbAbilitiesToArrayOfArrays(abilities) ==
    LET a == abilities \o <<>>
        s == ArraySort(a, [i, j \in 1..Len(a) |-> abilityCmp(a[i], a[j])])
        sorted == [i \in 1..Len(s) |-> s[i].ability] \o <<>>
    IN  IF ~shapeOk(Len(sorted)) THEN ShapeError
        ELSE [threw |-> FALSE,
              value |-> << <<sorted[1], sorted[2], sorted[3], sorted[4]>>,
                           <<sorted[5], sorted[6], sorted[7], sorted[8]>>,
                           <<sorted[9], sorted[10], sorted[11], sorted[12]>> >>]

----------------------------------------------------------------------------
(* ModeSetCodec *)

\* comparator of create's mode sort, line 55
modeCmp_alphabetic(a, b) ==
    LET abc == <<"CB", "RM", "SZ", "TC", "TW">> IN IndexOf(abc, a) - IndexOf(abc, b)
modeCmp(a, b) == IndexOf(modesShort, a) - IndexOf(modesShort, b)

\* create, lines 50-57: the value bound to the "modes" column
encodeModes_noLengthCheck(modes) ==
    IF modes # NULL
    THEN [text |-> JSON_stringify(
                    ArraySort(modes.array, [i, j \in 1..Len(modes.array) |->
                                               modeCmp(modes.array[i], modes.array[j])]))]
    ELSE NULL
encodeModes(modes) ==
    IF modes # NULL /\ Len(modes.array) > 0
    THEN [text |-> JSON_stringify(
                    ArraySort(modes.array, [i, j \in 1..Len(modes.array) |->
                                               modeCmp(modes.array[i], modes.array[j])]))]
    ELSE NULL

\* augmentBuild, line 169
decodeModes(rawModes) ==
    IF rawModes # NULL /\ rawModes.text # <<>>
    THEN [array |-> LET e == JsonArrayElems(rawModes.text, 1)
                    IN  [i \in 1..Len(e) |-> JsonString(e[i][1], Range(modesShort))]]
    ELSE NULL

----------------------------------------------------------------------------
(* Storage engine: the prepared statements and the transaction wrapper *)

Db == [Build |-> tblBuild, BuildWeapon |-> tblBuildWeapon, BuildAbility |-> tblBuildAbility]

EmptyDb == [Build |-> {}, BuildWeapon |-> <<>>, BuildAbility |-> <<>>]

MaxBuildId == 2       \* ids the storage engine may hand out: 1..MaxBuildId

MaxIdIn(builds) == IF builds = {} THEN 0 ELSE CHOOSE m \in {b.id : b \in builds} :
                                                  \A b \in builds : b.id <= m

\* Ids the engine may generate for the next build row: above every id in use
\* (rowid allocation), possibly skipping ids used before (autoincrement).
FreshIds(builds) == (MaxIdIn(builds) + 1)..MaxBuildId

\* createBuild.sql: insert one Build row, returning it
createBuildStm_get(builds, params, id) ==
    builds \cup {[id |-> id, ownerId |-> params.ownerId, title |-> params.title,
                  description |-> params.description, modes |-> params.modes,
                  headGearSplId |-> params.headGearSplId,
                  clothesGearSplId |-> params.clothesGearSplId,
                  shoesGearSplId |-> params.shoesGearSplId,
                  private |-> params.private]}

\* createBuildWeapon.sql / createBuildAbility.sql: insert one row
createBuildWeaponStm_run(rows, params) == Append(rows, params)
createBuildAbilityStm_run(rows, params) == Append(rows, params)

\* deleteById.sql: delete the build row; its weapon and ability rows go with it
\* (foreign keys with on delete cascade).
deleteByIdStm_run(db, id) ==
    [Build |-> {b \in db.Build : b.id # id},
     BuildWeapon |-> SelectSeq(db.BuildWeapon, LAMBDA r : r.buildId # id),
     BuildAbility |-> SelectSeq(db.BuildAbility, LAMBDA r : r.buildId # id)]

\* The ids of the stored builds, and the rows filed under one id.
IdsIn(db) == {b.id : b \in db.Build}

WeaponsOf(db, id) == SelectSeq(db.BuildWeapon, LAMBDA r : r.buildId = id)
AbilitiesOf(db, id) == SelectSeq(db.BuildAbility, LAMBDA r : r.buildId = id)

\* Which exported functions are wrapped in sql.transaction (lines 45 and 86);
\* deleteById (line 207) is a plain function.
IsTransaction_createBare(fn) == fn = "updateByReplacing"
IsTransaction_updateBare(fn) == fn = "create"
IsTransaction(fn) == fn \in {"create", "updateByReplacing"}

\* sql.transaction, entering: BEGIN, or SAVEPOINT when a transaction is open.
transaction_before_alwaysBegin(open, db) == Append(open, [kind |-> "BEGIN", snap |-> db])
transaction_before(open, db) ==
    Append(open, [kind |-> IF Len(open) > 0 THEN "SAVEPOINT" ELSE "BEGIN", snap |-> db])

\* sql.transaction, leaving normally: COMMIT / RELEASE
transaction_after(open) == SubSeq(open, 1, Len(open) - 1)

\* sql.transaction, on an exception: ROLLBACK / ROLLBACK TO, giving back the storage
\* as it was on entering.
transaction_undo(open) == open[Len(open)].snap

----------------------------------------------------------------------------
(* Inputs *)

M1 == << <<"ISM", "ISS", "IRU", "RSU">>,
         <<"SSU", "SCU", "SS", "SPU">>,
         <<"QR", "QSJ", "BRU", "RES">> >>

M2 == << <<"SSU", "SSU", "SSU", "SSU">>,
         <<"QR", "UNKNOWN", "UNKNOWN", "UNKNOWN">>,
         <<"ISM", "SSU", "ISM", "SSU">> >>

Owners == {1, 2}

\* The scenario of the specification ("Test") for either owner, and one more
\* build for each of them.
Payloads ==
    { [title |-> "Test", owners |-> {1, 2}, modes |-> NULL, weaponSplIds |-> <<1200>>,
       abilities |-> M1, private |-> FALSE],
      [title |-> "Anchor", owners |-> {1}, modes |-> [array |-> <<"SZ", "TW">>],
       weaponSplIds |-> <<45, 40>>, abilities |-> M2, private |-> TRUE],
      [title |-> "Dualies", owners |-> {2}, modes |-> [array |-> <<"RM", "TW", "RM">>],
       weaponSplIds |-> <<40, 40>>, abilities |-> M1, private |-> FALSE] }

\* CreateArgs values (lines 33-44)
CreateArgs ==
    UNION { { [ownerId |-> o, title |-> p.title, description |-> "", modes |-> p.modes,
               headGearSplId |-> 1, clothesGearSplId |-> 2, shoesGearSplId |-> 3,
               weaponSplIds |-> p.weaponSplIds, abilities |-> p.abilities,
               private |-> p.private] : o \in p.owners } : p \in Payloads }

WithId(args, id) ==
    [ownerId |-> args.ownerId, title |-> args.title, description |-> args.description,
     modes |-> args.modes, headGearSplId |-> args.headGearSplId,
     clothesGearSplId |-> args.clothesGearSplId, shoesGearSplId |-> args.shoesGearSplId,
     weaponSplIds |-> args.weaponSplIds, abilities |-> args.abilities,
     private |-> args.private, id |-> id]

\* The parameters of createBuildStm.get, lines 47-61
buildParams(b) ==
    [ownerId |-> b.ownerId, title |-> b.title, description |-> b.description,
     modes |-> encodeModes(b.modes),
     headGearSplId |-> b.headGearSplId, clothesGearSplId |-> b.clothesGearSplId,
     shoesGearSplId |-> b.shoesGearSplId, private |-> b.private]

\* The parameters of the i-th createBuildWeaponStm.run (0-based), lines 65-68
weaponParams_fixedId(buildId, weaponSplIds, i) ==
    [buildId |-> 1, weaponSplId |-> weaponSplIds[i + 1]]
weaponParams(buildId, weaponSplIds, i) ==
    [buildId |-> buildId, weaponSplId |-> weaponSplIds[i + 1]]

----------------------------------------------------------------------------
(* The request thread *)

NoBuild == [none |-> TRUE]
NoOutcome == [fn |-> "none", status |-> "none"]
NoRead == [fn |-> "none"]

Idle == stack = <<>>
Top == stack[Len(stack)]
AtPc(fn, pc) == ~Idle /\ Top.fn = fn /\ Top.pc = pc

Goto(pc) == [stack EXCEPT ![Len(stack)].pc = pc]

\* Where create continues after the weapon insert at position i (lines 64-71).
AfterWeapon_oneShort(i) ==
    IF i + 1 < Len(build.weaponSplIds) THEN "createBuildWeapon"
    ELSE IF Len(build.abilities) > 0 THEN "createBuildAbility" ELSE "after"
AfterWeapon(i) ==
    IF i < Len(build.weaponSplIds) THEN "createBuildWeapon"
    ELSE IF Len(build.abilities) > 0 THEN "createBuildAbility" ELSE "after"

\* create: the value the transaction callback returns (none: lines 45-84 hold no return)
create_result(created) == Undefined

\* The caller invokes create(build)
Call_create(args) ==
    /\ Idle
    /\ FreshIds(tblBuild) # {}
    /\ stack' = <<[fn |-> "create", pc |-> "before"]>>
    /\ build' = args
    /\ createdBuild' = NoBuild
    /\ weaponI' = 0 /\ rowI' = 0 /\ abilityI' = 0
    /\ pre' = Db
    /\ outcome' = NoOutcome
    /\ readResult' = NoRead /\ readRaw' = <<>>
    /\ UNCHANGED <<dbvars, tx, codecvars, modevars>>

\* The caller invokes updateByReplacing(build)
Call_updateByReplacing(args, id) ==
    /\ Idle
    /\ FreshIds({b \in tblBuild : b.id # id}) # {}
    /\ stack' = <<[fn |-> "updateByReplacing", pc |-> "before"]>>
    /\ build' = WithId(args, id)
    /\ createdBuild' = NoBuild
    /\ weaponI' = 0 /\ rowI' = 0 /\ abilityI' = 0
    /\ pre' = Db
    /\ outcome' = NoOutcome
    /\ readResult' = NoRead /\ readRaw' = <<>>
    /\ UNCHANGED <<dbvars, tx, codecvars, modevars>>

\* The caller invokes deleteById(id), line 207
Call_deleteById(id) ==
    /\ Idle
    /\ stack' = <<[fn |-> "deleteById", pc |-> "deleteById"]>>
    /\ build' = [id |-> id]
    /\ createdBuild' = NoBuild
    /\ weaponI' = 0 /\ rowI' = 0 /\ abilityI' = 0
    /\ pre' = Db
    /\ outcome' = NoOutcome
    /\ readResult' = NoRead /\ readRaw' = <<>>
    /\ UNCHANGED <<dbvars, tx, codecvars, modevars>>

\* The first statement of a function body: line 46 in create, line 88 in
\* updateByReplacing, line 208 in deleteById.
firstStatement_noDelete(fn) ==
    IF fn = "create" THEN "createBuild" ELSE IF fn = "deleteById" THEN "deleteById" ELSE "create"
firstStatement(fn) == IF fn = "create" THEN "createBuild" ELSE "deleteById"

\* sql.transaction enters the wrapped function (lines 45, 86)
Before ==
    /\ ~Idle /\ Top.pc = "before"
    /\ tx' = IF IsTransaction(Top.fn) THEN transaction_before(tx, Db) ELSE tx
    /\ stack' = Goto(firstStatement(Top.fn))
    /\ UNCHANGED <<dbvars, build, createdBuild, weaponI, rowI, abilityI,
                   obsvars, codecvars, modevars>>

\* create, lines 46-62
CreateBuild ==
    /\ AtPc("create", "createBuild")
    /\ \E id \in FreshIds(tblBuild) :
        /\ tblBuild' = createBuildStm_get(tblBuild, buildParams(build), id)
        /\ createdBuild' = CHOOSE b \in tblBuild' : b.id = id
    /\ weaponI' = 0
    /\ stack' = Goto(AfterWeapon(0))
    /\ UNCHANGED <<tblBuildWeapon, tblBuildAbility, tx, build, rowI, abilityI,
                   obsvars, codecvars, modevars>>

\* create, lines 64-69: one iteration
CreateBuildWeapon ==
    /\ AtPc("create", "createBuildWeapon")
    /\ tblBuildWeapon' = createBuildWeaponStm_run(tblBuildWeapon,
            weaponParams(createdBuild.id, build.weaponSplIds, weaponI))
    /\ weaponI' = weaponI + 1
    /\ stack' = Goto(AfterWeapon(weaponI + 1))
    /\ rowI' = 0 /\ abilityI' = 0
    /\ UNCHANGED <<tblBuild, tblBuildAbility, tx, build, createdBuild,
                   obsvars, codecvars, modevars>>

\* create, lines 71-83: one iteration of the inner loop
CreateBuildAbility ==
    /\ AtPc("create", "createBuildAbility")
    /\ tblBuildAbility' = createBuildAbilityStm_run(tblBuildAbility,
            abilityParams(createdBuild.id, build.abilities, rowI, abilityI))
    /\ LET rowDone == abilityI + 1 >= Len(build.abilities[rowI + 1])
           allDone == rowDone /\ rowI + 1 >= Len(build.abilities)
       IN  /\ abilityI' = IF rowDone THEN 0 ELSE abilityI + 1
           /\ rowI' = IF rowDone THEN rowI + 1 ELSE rowI
           /\ stack' = Goto(IF allDone THEN "after" ELSE "createBuildAbility")
    /\ UNCHANGED <<tblBuild, tblBuildWeapon, tx, build, createdBuild, weaponI,
                   obsvars, codecvars, modevars>>

\* The parameters of deleteByIdStm.run: { id: build.id } (line 88), { id } (line 208)
deleteParams_owner(b) == [id |-> IF "ownerId" \in DOMAIN b THEN b.ownerId ELSE b.id]
deleteParams_unbound(b) == [id |-> 0]
deleteParams(b) == [id |-> b.id]

\* deleteByIdStm.run: line 88 in updateByReplacing, line 208 in deleteById
DeleteById ==
    /\ ~Idle /\ Top.pc = "deleteById"
    /\ LET db == deleteByIdStm_run(Db, deleteParams(build).id)
       IN  /\ tblBuild' = db.Build
           /\ tblBuildWeapon' = db.BuildWeapon
           /\ tblBuildAbility' = db.BuildAbility
    /\ stack' = Goto(IF Top.fn = "updateByReplacing" THEN "create" ELSE "after")
    /\ UNCHANGED <<tx, build, createdBuild, weaponI, rowI, abilityI,
                   obsvars, codecvars, modevars>>

\* updateByReplacing, line 89: create(build)
NestedCreate ==
    /\ AtPc("updateByReplacing", "create")
    /\ stack' = Append(Goto("after"), [fn |-> "create", pc |-> "before"])
    /\ createdBuild' = NoBuild
    /\ weaponI' = 0 /\ rowI' = 0 /\ abilityI' = 0
    /\ UNCHANGED <<dbvars, tx, build, obsvars, codecvars, modevars>>

\* A statement fails (StorageFailure): the exception leaves the function body.
StatementFails ==
    /\ ~Idle
    /\ Top.pc \in {"createBuild", "createBuildWeapon", "createBuildAbility", "deleteById"}
    /\ stack' = Goto("catch")
    /\ outcome' = [fn |-> "none", status |-> "failing", at |-> Top.pc]
    /\ UNCHANGED <<dbvars, tx, build, createdBuild, weaponI, rowI, abilityI,
                   pre, readResult, readRaw, codecvars, modevars>>

\* The function body ended: sql.transaction commits (or releases its savepoint).
After ==
    /\ ~Idle /\ Top.pc = "after"
    /\ tx' = IF IsTransaction(Top.fn) THEN transaction_after(tx) ELSE tx
    /\ stack' = Goto("return")
    /\ UNCHANGED <<dbvars, build, createdBuild, weaponI, rowI, abilityI,
                   obsvars, codecvars, modevars>>

\* An exception reached sql.transaction: it rolls back (to its savepoint) before
\* rethrowing; a plain function has nothing to undo.
Catch ==
    /\ ~Idle /\ Top.pc = "catch"
    /\ LET wrapped == IsTransaction(Top.fn) /\ Len(tx) > 0
           db == IF wrapped THEN transaction_undo(tx) ELSE Db
       IN  /\ tblBuild' = db.Build
           /\ tblBuildWeapon' = db.BuildWeapon
           /\ tblBuildAbility' = db.BuildAbility
           /\ tx' = IF wrapped THEN transaction_after(tx) ELSE tx
    /\ stack' = Goto("rethrow")
    /\ UNCHANGED <<build, createdBuild, weaponI, rowI, abilityI,
                   obsvars, codecvars, modevars>>

\* What the caller is left with once the outermost call is over; the locals are gone.
Finished(fn, status) ==
    /\ stack' = <<>>
    /\ outcome' =
        IF status = "threw" THEN [fn |-> fn, status |-> "threw", at |-> outcome.at]
        ELSE [fn |-> fn, status |-> "returned",
              value |-> IF fn = "create" THEN create_result(createdBuild) ELSE Undefined,
              build |-> build,
              createdId |-> IF createdBuild = NoBuild THEN 0 ELSE createdBuild.id,
              ownerHadBuilds |-> IF fn = "deleteById" THEN FALSE
                                 ELSE \E b \in pre.Build : b.ownerId = build.ownerId]
    /\ build' = NoBuild /\ createdBuild' = NoBuild
    /\ weaponI' = 0 /\ rowI' = 0 /\ abilityI' = 0
    /\ pre' = EmptyDb

\* The call returns to its caller: the nested create to updateByReplacing (line 89),
\* the outermost call to the request handler.
Return ==
    /\ ~Idle /\ Top.pc = "return"
    /\ IF Len(stack) = 1
       THEN Finished(Top.fn, "returned")
       ELSE /\ stack' = SubSeq(stack, 1, Len(stack) - 1)
            /\ UNCHANGED <<build, createdBuild, weaponI, rowI, abilityI, pre, outcome>>
    /\ UNCHANGED <<dbvars, tx, readResult, readRaw, codecvars, modevars>>

\* The exception propagates to the caller.
Rethrow ==
    /\ ~Idle /\ Top.pc = "rethrow"
    /\ IF Len(stack) = 1
       THEN Finished(Top.fn, "threw")
       ELSE /\ stack' = [SubSeq(stack, 1, Len(stack) - 1) EXCEPT ![Len(stack) - 1].pc = "catch"]
            /\ UNCHANGED <<build, createdBuild, weaponI, rowI, abilityI, pre, outcome>>
    /\ UNCHANGED <<dbvars, tx, readResult, readRaw, codecvars, modevars>>

\* The storage a successful create(args) leaves, `id` being the id the build-row
\* insert generated: lines 46-83 run to their end.
create_effect(db, args, id) ==
    [Build |-> createBuildStm_get(db.Build, buildParams(args), id),
     BuildWeapon |-> db.BuildWeapon \o
        [i \in 1..Len(args.weaponSplIds) |-> weaponParams(id, args.weaponSplIds, i - 1)],
     BuildAbility |-> db.BuildAbility \o
        [k \in 1..(Len(args.abilities) * 4) |->
            abilityParams(id, args.abilities, (k - 1) \div 4, (k - 1) % 4)]]

\* The storage a successful updateByReplacing(b) leaves: lines 88-89 run to their end.
updateByReplacing_effect(db, b, id) ==
    create_effect(deleteByIdStm_run(db, deleteParams(b).id), b, id)

----------------------------------------------------------------------------
(* Read queries *)

MaxRot == 1           \* row orders the engine may return: rotations 0..MaxRot, each reversed or not
MaxLimit == 2         \* limits passed to buildsByWeaponId: 1..MaxLimit

NoAltWeaponId == -1

\* One of the orders in which the engine may list the rows of an aggregate.
Reorder(s, rot, rev) ==
    LET n == Len(s)
        r == [i \in 1..n |-> s[((i - 1 + rot) % n) + 1]]
    IN  (IF rev THEN [i \in 1..n |-> r[n + 1 - i]] ELSE r) \o <<>>

\* The "weapons" column of a result row: JSON array of {weaponSplId, minRank, maxPower}
weaponsBlob(db, id, rot, rev) ==
    LET rows == Reorder(SelectSeq(db.BuildWeapon, LAMBDA r : r.buildId = id), rot, rev)
    IN  JsonArrayText([i \in 1..Len(rows) |->
            JsonObjectText(<<"weaponSplId", "minRank", "maxPower">>,
                           <<ToString(rows[i].weaponSplId), "null", "null">>)])

\* The "abilities" column of a result row: JSON array of {ability, gearType, slotIndex}
abilitiesBlob(db, id, rot, rev) ==
    LET rows == Reorder(SelectSeq(db.BuildAbility, LAMBDA r : r.buildId = id), rot, rev)
    IN  JsonArrayText([i \in 1..Len(rows) |->
            JsonObjectText(<<"ability", "gearType", "slotIndex">>,
                           <<Quote(rows[i].ability), Quote(rows[i].gearType),
                             ToString(rows[i].slotIndex)>>)])

ResultRow(db, b, rot, rev) ==
    [id |-> b.id, title |-> b.title, description |-> b.description, modes |-> b.modes,
     headGearSplId |-> b.headGearSplId, clothesGearSplId |-> b.clothesGearSplId,
     shoesGearSplId |-> b.shoesGearSplId, private |-> b.private,
     weapons |-> weaponsBlob(db, b.id, rot, rev),
     abilities |-> abilitiesBlob(db, b.id, rot, rev)]

ById(builds) ==
    [i \in 1..Cardinality(builds) |->
        CHOOSE b \in builds : Cardinality({c \in builds : c.id < b.id}) = i - 1]

\* buildsByUserId.sql: one row per build of the owner (visibility is decided by
\* the query's policy parameter and is not modelled).
buildsByUserIdStm_all(db, userId, rot, rev) ==
    LET found == ById({b \in db.Build : b.ownerId = userId})
    IN  [i \in 1..Len(found) |-> ResultRow(db, found[i], rot, rev)] \o <<>>

\* buildsByWeaponId.sql: one row per build holding a weapon row with either
\* identifier, at most `limit` rows.
buildsByWeaponIdStm_all(db, weaponId, altWeaponId, limit, rot, rev) ==
    LET found == ById({b \in db.Build :
                        \E i \in 1..Len(db.BuildWeapon) :
                            /\ db.BuildWeapon[i].buildId = b.id
                            /\ db.BuildWeapon[i].weaponSplId \in {weaponId, altWeaponId}})
        n == IF Len(found) < limit THEN Len(found) ELSE limit
    IN  [i \in 1..n |-> ResultRow(db, found[i], rot, rev)] \o <<>>

\* comparator of augmentBuild's weapon sort, line 172
weaponCmp_descending(a, b) == b.weaponSplId - a.weaponSplId
weaponCmp(a, b) == a.weaponSplId - b.weaponSplId

JsonNullableNumber(tok) == IF tok = "null" THEN NULL ELSE [num |-> JsonNumber(tok)]

\* JSON.parse(rawWeapons), line 171
parseWeapons(text) ==
    LET e == JsonArrayElems(text, ObjectWidth(3))
    IN  [i \in 1..Len(e) |->
            [weaponSplId |-> JsonNumber(JsonField(e[i], "weaponSplId")),
             minRank |-> JsonNullableNumber(JsonField(e[i], "minRank")),
             maxPower |-> JsonNullableNumber(JsonField(e[i], "maxPower"))]] \o <<>>

\* JSON.parse(rawAbilities), line 173
parseAbilities(text) ==
    LET e == JsonArrayElems(text, ObjectWidth(3))
    IN  [i \in 1..Len(e) |->
            [ability |-> JsonString(JsonField(e[i], "ability"), Abilities),
             gearType |-> JsonString(JsonField(e[i], "gearType"), GearTypes),
             slotIndex |-> JsonNumber(JsonField(e[i], "slotIndex"))]] \o <<>>

\* augmentBuild, lines 163-183
augmentBuild(row) ==
    LET modes == decodeModes(row.modes)
        parsed == parseWeapons(row.weapons)
        weapons == ArraySort(parsed, [i, j \in 1..Len(parsed) |-> weaponCmp(parsed[i], parsed[j])])
        abilities == dbAbilitiesToArrayOfArrays(parseAbilities(row.abilities))
    IN  IF abilities.threw THEN abilities
        ELSE [threw |-> FALSE,
              value |-> [id |-> row.id, title |-> row.title,
                         description |-> row.description,
                         headGearSplId |-> row.headGearSplId,
                         clothesGearSplId |-> row.clothesGearSplId,
                         shoesGearSplId |-> row.shoesGearSplId,
                         private |-> row.private,
                         modes |-> modes, weapons |-> weapons,
                         abilities |-> abilities.value]]

\* rows.map(augmentBuild), lines 137 and 160: the first exception ends the call
mapAugmentBuild_skipBad(rows) ==
    LET out == [i \in 1..Len(rows) |-> augmentBuild(rows[i])] \o <<>>
        good == SelectSeq(out, LAMBDA r : ~r.threw)
    IN  [threw |-> FALSE, value |-> [i \in 1..Len(good) |-> good[i].value]]
mapAugmentBuild(rows) ==
    LET out == [i \in 1..Len(rows) |-> augmentBuild(rows[i])] \o <<>>
    IN  IF \E i \in 1..Len(out) : out[i].threw
        THEN out[CHOOSE i \in 1..Len(out) : out[i].threw /\ \A j \in 1..(i - 1) : ~out[j].threw]
        ELSE [threw |-> FALSE, value |-> [i \in 1..Len(out) |-> out[i].value]]

\* buildsByUserId, lines 125-138
BuildsByUserId(userId) ==
    /\ Idle /\ readResult = NoRead
    /\ \E rot \in 0..MaxRot, rev \in BOOLEAN :
        LET rows == buildsByUserIdStm_all(Db, userId, rot, rev)
        IN  /\ readRaw' = rows
            /\ readResult' = [fn |-> "buildsByUserId", userId |-> userId,
                              result |-> mapAugmentBuild(rows)]
    /\ UNCHANGED <<dbvars, ctlvars, pre, outcome, codecvars, modevars>>

\* countByUserId.sql: one row holding the number of builds of the owner, or, when the
\* query groups by owner and the owner has no builds, no row at all (the visibility
\* policy parameter is not modelled).
countByUserIdStm_get(db, userId, grouped) ==
    LET n == Cardinality({b \in db.Build : b.ownerId = userId})
    IN  IF grouped /\ n = 0 THEN Undefined ELSE [count |-> n]

\* countByUserIdStm.get(...)?.count ?? 0, lines 100-101
countByUserId_noDefault(row) == IF row = Undefined THEN Undefined ELSE [num |-> row.count]
countByUserId(row) == IF row = Undefined THEN [num |-> 0] ELSE [num |-> row.count]

\* countByUserId, lines 93-102
CountByUserId(userId) ==
    /\ Idle /\ readResult = NoRead
    /\ \E grouped \in BOOLEAN :
        LET row == countByUserIdStm_get(Db, userId, grouped)
        IN  readResult' = [fn |-> "countByUserId", userId |-> userId, row |-> row,
                           result |-> countByUserId(row)]
    /\ readRaw' = <<>>
    /\ UNCHANGED <<dbvars, ctlvars, pre, outcome, codecvars, modevars>>

\* weaponIdToAltId.get(weaponId) ?? -1, line 156
altWeaponIdOf_noLookup(weaponId) == NoAltWeaponId
altWeaponIdOf(weaponId) ==
    IF weaponId \in DOMAIN weaponIdToAltId THEN weaponIdToAltId[weaponId] ELSE NoAltWeaponId

\* buildsByWeaponId, lines 146-161
BuildsByWeaponId(weaponId, limit) ==
    /\ Idle /\ readResult = NoRead
    /\ \E rot \in 0..MaxRot, rev \in BOOLEAN :
        LET altWeaponId == altWeaponIdOf(weaponId)
            rows == buildsByWeaponIdStm_all(Db, weaponId, altWeaponId, limit, rot, rev)
        IN  /\ readRaw' = rows
            /\ readResult' = [fn |-> "buildsByWeaponId", weaponId |-> weaponId,
                              altWeaponId |-> altWeaponId, limit |-> limit,
                              result |-> mapAugmentBuild(rows)]
    /\ UNCHANGED <<dbvars, ctlvars, pre, outcome, codecvars, modevars>>

----------------------------------------------------------------------------
(* The persistence layer as a state machine *)

NotRun == [run |-> FALSE]

InitCodecIdle ==
    /\ cAbilities = <<>> /\ cMatrix = <<>> /\ cEdits = 0 /\ cResult = NotRun

InitModesIdle ==
    /\ mModes = NULL /\ mStored = NotRun /\ mRead = NotRun

InitControl ==
    /\ tx = <<>> /\ stack = <<>>
    /\ build = NoBuild /\ createdBuild = NoBuild
    /\ weaponI = 0 /\ rowI = 0 /\ abilityI = 0
    /\ pre = EmptyDb /\ outcome = NoOutcome
    /\ readResult = NoRead /\ readRaw = <<>>

InitStorage ==
    /\ tblBuild = {} /\ tblBuildWeapon = <<>> /\ tblBuildAbility = <<>>
    /\ InitControl

Init == InitStorage /\ InitCodecIdle /\ InitModesIdle

Next ==
    \/ \E args \in CreateArgs : Call_create(args)
    \/ \E args \in CreateArgs, id \in 1..MaxBuildId : Call_updateByReplacing(args, id)
    \/ \E id \in 1..MaxBuildId : Call_deleteById(id)
    \/ Before
    \/ CreateBuild
    \/ CreateBuildWeapon
    \/ CreateBuildAbility
    \/ DeleteById
    \/ NestedCreate
    \/ StatementFails
    \/ After
    \/ Catch
    \/ Return
    \/ Rethrow
    \/ \E userId \in Owners : CountByUserId(userId)
    \/ \E userId \in Owners : BuildsByUserId(userId)
    \/ \E weaponId \in WeaponIds, limit \in 1..MaxLimit : BuildsByWeaponId(weaponId, limit)

Spec == Init /\ [][Next]_vars

----------------------------------------------------------------------------
(* Harness for the ability-matrix codec *)

M3 == << <<"UNKNOWN", "UNKNOWN", "UNKNOWN", "UNKNOWN">>,
         <<"UNKNOWN", "UNKNOWN", "UNKNOWN", "UNKNOWN">>,
         <<"UNKNOWN", "UNKNOWN", "UNKNOWN", "UNKNOWN">> >>

CodecMatrices == {M1, M2, M3}

MaxCodecEdits == 2    \* cells added to / removed from the encoded collection

\* The encoded cells with the gear rows permuted by gp and the slots by sp.
Shuffled(cells, gp, sp) ==
    [k \in 1..Len(cells) |-> cells[(gp[((k - 1) \div 4) + 1] - 1) * 4 + sp[((k - 1) % 4) + 1]]]

ExtraCells ==
    { [ability |-> "SSU", gearType |-> "HEAD", slotIndex |-> 0],
      [ability |-> "ISM", gearType |-> "CLOTHES", slotIndex |-> 2],
      [ability |-> "QR", gearType |-> "SHOES", slotIndex |-> 3] }

InitCodec ==
    /\ InitStorage /\ InitModesIdle
    /\ cMatrix \in CodecMatrices
    /\ \E gp \in Permutations(1..3), sp \in Permutations(1..4) :
        cAbilities = Shuffled(encodedCells(cMatrix), gp, sp)
    /\ cEdits = 0
    /\ cResult = NotRun

Codec_Drop(i) ==
    /\ cResult = NotRun /\ cEdits < MaxCodecEdits
    /\ i \in 1..Len(cAbilities)
    /\ cAbilities' = SubSeq(cAbilities, 1, i - 1) \o SubSeq(cAbilities, i + 1, Len(cAbilities))
    /\ cEdits' = cEdits + 1
    /\ UNCHANGED <<dbvars, ctlvars, obsvars, cMatrix, cResult, modevars>>

Codec_Add(cell) ==
    /\ cResult = NotRun /\ cEdits < MaxCodecEdits
    /\ cAbilities' = Append(cAbilities, cell)
    /\ cEdits' = cEdits + 1
    /\ UNCHANGED <<dbvars, ctlvars, obsvars, cMatrix, cResult, modevars>>

Codec_Clear ==
    /\ cResult = NotRun /\ cEdits < MaxCodecEdits
    /\ cAbilities' = <<>>
    /\ cEdits' = cEdits + 1
    /\ UNCHANGED <<dbvars, ctlvars, obsvars, cMatrix, cResult, modevars>>

Codec_Decode ==
    /\ cResult = NotRun
    /\ cResult' = dbAbilitiesToArrayOfArrays(cAbilities)
    /\ UNCHANGED <<dbvars, ctlvars, obsvars, cAbilities, cMatrix, cEdits, modevars>>

NextCodec ==
    \/ \E i \in {1, Len(cAbilities)} : Codec_Drop(i)
    \/ \E cell \in ExtraCells : Codec_Add(cell)
    \/ Codec_Clear
    \/ Codec_Decode

SpecCodec == InitCodec /\ [][NextCodec]_vars

----------------------------------------------------------------------------
(* Harness for the read path over a storage that another writer has damaged *)

\* Storage as two successful create calls of owner 1 leave it.
StoredPairs ==
    LET mine == {a \in CreateArgs : a.ownerId = 1}
    IN  {create_effect(create_effect(EmptyDb, a1, 1), a2, 2) : a1, a2 \in mine}

InitRead ==
    /\ InitControl /\ InitCodecIdle /\ InitModesIdle
    /\ \E db \in StoredPairs :
        /\ tblBuild = db.Build
        /\ tblBuildWeapon = db.BuildWeapon
        /\ tblBuildAbility = db.BuildAbility

\* Upstream data corruption: the last ability row of build id is lost.
External_DropCell(id) ==
    /\ readResult = NoRead /\ cEdits < MaxCodecEdits
    /\ AbilitiesOf(Db, id) # <<>>
    /\ LET last == CHOOSE i \in 1..Len(tblBuildAbility) :
                        /\ tblBuildAbility[i].buildId = id
                        /\ \A j \in (i + 1)..Len(tblBuildAbility) : tblBuildAbility[j].buildId # id
       IN  tblBuildAbility' = SubSeq(tblBuildAbility, 1, last - 1)
                                \o SubSeq(tblBuildAbility, last + 1, Len(tblBuildAbility))
    /\ cEdits' = cEdits + 1
    /\ UNCHANGED <<tblBuild, tblBuildWeapon, ctlvars, obsvars, cAbilities, cMatrix, cResult, modevars>>

\* Upstream data corruption: build id gets one ability row too many.
External_AddCell(id, cell) ==
    /\ readResult = NoRead /\ cEdits < MaxCodecEdits
    /\ tblBuildAbility' = Append(tblBuildAbility,
            [buildId |-> id, gearType |-> cell.gearType,
             ability |-> cell.ability, slotIndex |-> cell.slotIndex])
    /\ cEdits' = cEdits + 1
    /\ UNCHANGED <<tblBuild, tblBuildWeapon, ctlvars, obsvars, cAbilities, cMatrix, cResult, modevars>>

NextRead ==
    \/ \E id \in IdsIn(Db) : External_DropCell(id)
    \/ \E id \in IdsIn(Db), cell \in ExtraCells : External_AddCell(id, cell)
    \/ \E userId \in Owners : BuildsByUserId(userId)
    \/ \E weaponId \in WeaponIds, limit \in 1..MaxLimit : BuildsByWeaponId(weaponId, limit)

SpecRead == InitRead /\ [][NextRead]_vars

----------------------------------------------------------------------------
(* Harness for the mode-set encoding of create *)

MaxModes == 3         \* longest input mode collection

ModeArrays == UNION {[1..n -> Range(modesShort)] : n \in 0..MaxModes}

InitModes ==
    /\ InitStorage /\ InitCodecIdle
    /\ mModes \in {NULL} \cup {[array |-> a] : a \in ModeArrays}
    /\ mStored = NotRun /\ mRead = NotRun

Modes_Encode ==
    /\ mStored = NotRun
    /\ mStored' = [run |-> TRUE, modes |-> encodeModes(mModes)]
    /\ UNCHANGED <<dbvars, ctlvars, obsvars, codecvars, mModes, mRead>>

Modes_Decode ==
    /\ mStored # NotRun /\ mRead = NotRun
    /\ mRead' = [run |-> TRUE, modes |-> decodeModes(mStored.modes)]
    /\ UNCHANGED <<dbvars, ctlvars, obsvars, codecvars, mModes, mStored>>

NextModes == Modes_Encode \/ Modes_Decode

SpecModes == InitModes /\ [][NextModes]_vars

----------------------------------------------------------------------------
(* Properties *)

\* The 12 ability rows of matrix m filed under id, by the fixed order HEAD, CLOTHES, SHOES.
MatrixRows(id, m) ==
    {[buildId |-> id, gearType |-> gearOrder[r], ability |-> m[r][c], slotIndex |-> c - 1]
        : r \in 1..3, c \in 1..4}

\* db holds the complete build made from args under id: its row, one weapon row
\* per input weapon in input order, and its 12 ability rows, each once.
HoldsComplete(db, id, args) ==
    /\ \E b \in db.Build :
        /\ b.id = id /\ b.ownerId = args.ownerId /\ b.title = args.title
        /\ b.description = args.description /\ b.private = args.private
        /\ b.headGearSplId = args.headGearSplId
        /\ b.clothesGearSplId = args.clothesGearSplId
        /\ b.shoesGearSplId = args.shoesGearSplId
    /\ Cardinality({b \in db.Build : b.id = id}) = 1
    /\ WeaponsOf(db, id) = [i \in 1..Len(args.weaponSplIds) |->
                                [buildId |-> id, weaponSplId |-> args.weaponSplIds[i]]]
    /\ Range(AbilitiesOf(db, id)) = MatrixRows(id, args.abilities)
    /\ Len(AbilitiesOf(db, id)) = AbilityCount

\* db holds nothing filed under id.
HoldsNothing(db, id) ==
    /\ id \notin IdsIn(db)
    /\ WeaponsOf(db, id) = <<>>
    /\ AbilitiesOf(db, id) = <<>>

\* Every build, weapon and ability row of `was` other than those of id is in `now`, unchanged.
OthersKept(was, now, id) ==
    /\ {b \in was.Build : b.id # id} \subseteq now.Build
    /\ \A other \in IdsIn(was) \ {id} :
        /\ WeaponsOf(now, other) = WeaponsOf(was, other)
        /\ AbilitiesOf(now, other) = AbilitiesOf(was, other)

Leaving(fn, pc) == Len(stack) = 1 /\ Top.fn = fn /\ Top.pc = pc

\* C1: create is all-or-nothing: when a statement of create fails (the build-row
\* insert, any weapon insert, any ability-cell insert), then at the moment the
\* exception reaches the caller no transaction is open and the storage is exactly
\* the storage from before the call.
C1_CreateAllOrNothing ==
    Leaving("create", "rethrow") => (Db = pre /\ tx = <<>>)

\* C1 witness: the last ability-cell insert of a create failed, after the build row,
\* two weapon rows and 11 cells had been written next to an older build, and the
\* exception is about to reach the caller.
C1_Witness ==
    /\ Leaving("create", "rethrow")
    /\ outcome.at = "createBuildAbility" /\ rowI = 2 /\ abilityI = 3 /\ weaponI = 2
    /\ pre.Build # {}
    /\ Db = pre

\* C2: updateByReplacing is one atomic unit: when it throws (the delete or any
\* statement of the nested create failed) the storage is exactly the storage from
\* before the call, original build included; when it returns, the build of the
\* given id is gone with all its rows, one complete new build is there, and every
\* other build is as it was.  Never neither, never a mixture.
C2_ReplaceAtomic ==
    /\ Leaving("updateByReplacing", "rethrow") => (Db = pre /\ tx = <<>>)
    /\ Leaving("updateByReplacing", "return") =>
        /\ tx = <<>>
        /\ \E new \in IdsIn(Db) \ IdsIn([Build |-> {b \in pre.Build : b.id # build.id}]) :
            /\ HoldsComplete(Db, new, build)
            /\ IdsIn(Db) = (IdsIn(pre) \ {build.id}) \cup {new}
            /\ new # build.id => HoldsNothing(Db, build.id)
            /\ OthersKept(pre, Db, build.id)

\* C2 witness: the delete of an existing build succeeded, an ability-cell insert of
\* the nested create failed, and the exception is about to reach the caller with
\* the original build back in place.
C2_Witness ==
    /\ Leaving("updateByReplacing", "rethrow")
    /\ outcome.at = "createBuildAbility"
    /\ build.id \in IdsIn(pre)
    /\ HoldsComplete(Db, build.id, CHOOSE a \in CreateArgs : HoldsComplete(pre, build.id, a))

C4_RoundTrip ==
    (cResult # NotRun /\ cEdits = 0) => cResult = [threw |-> FALSE, value |-> cMatrix]

\* C4 witness: the cells of the all-distinct matrix were decoded from an order that
\* starts with a SHOES cell and is not the emission order.
C4_Witness ==
    /\ cResult # NotRun /\ cEdits = 0
    /\ cMatrix = M1
    /\ cAbilities # encodedCells(cMatrix)
    /\ cAbilities[1].gearType = "SHOES" /\ cAbilities[1].slotIndex = 2
    /\ cResult = [threw |-> FALSE, value |-> M1]

\* C5: the decode fails with the shape error exactly when its input does not hold
\* 12 cells, and for 12 cells it returns 3 rows of 4 abilities.
C5_ShapeCheck ==
    cResult # NotRun =>
        /\ Len(cAbilities) # 12 => cResult = ShapeError
        /\ Len(cAbilities) = 12 =>
            /\ ~cResult.threw
            /\ Len(cResult.value) = 3
            /\ \A r \in 1..3 : Len(cResult.value[r]) = 4
                                /\ Range(cResult.value[r]) \subseteq Abilities

\* C5 witness: a collection of 13 cells was refused with the shape error.
C5_Witness ==
    /\ cResult = ShapeError
    /\ Len(cAbilities) = 13

\* C6 as claimed: after a successful create the caller holds the generated id of
\* the inserted build row.
C6_CallerHoldsId ==
    (outcome.fn = "create" /\ outcome.status = "returned")
        => outcome.value = [num |-> outcome.createdId]

\* C6 amended: a successful create hands nothing to its caller (the call evaluates
\* to undefined); the id generated by the build-row insert is the one all rows of
\* the call are filed under, and it is the id of a build that a subsequent
\* buildsByUserId of the owner returns.
C6_IdGeneratedNotReturned ==
    (outcome.fn = "create" /\ outcome.status = "returned") =>
        /\ outcome.value = Undefined
        /\ HoldsComplete(Db, outcome.createdId, outcome.build)
        /\ (readResult.fn = "buildsByUserId" /\ readResult.userId = outcome.build.ownerId) =>
            /\ ~readResult.result.threw
            /\ \E i \in 1..Len(readResult.result.value) :
                readResult.result.value[i].id = outcome.createdId

\* C6 witness: a create succeeded and the owner's builds were listed afterwards.
C6_Witness ==
    /\ outcome.fn = "create" /\ outcome.status = "returned"
    /\ outcome.value = Undefined
    /\ readResult.fn = "buildsByUserId" /\ readResult.userId = outcome.build.ownerId
    /\ ~readResult.result.threw
    /\ \E i \in 1..Len(readResult.result.value) :
        readResult.result.value[i].id = outcome.createdId

SameElements(s, t) ==
    /\ Len(s) = Len(t)
    /\ \A x \in Range(s) \cup Range(t) :
        Cardinality({i \in 1..Len(s) : s[i] = x}) = Cardinality({i \in 1..Len(t) : t[i] = x})

WeaponIdsOf(b) == [i \in 1..Len(b.weapons) |-> b.weapons[i].weaponSplId]

FirstBuildOfOwnerListed ==
    /\ outcome.fn = "create" /\ outcome.status = "returned"
    /\ ~outcome.ownerHadBuilds
    /\ readResult.fn = "buildsByUserId" /\ readResult.userId = outcome.build.ownerId

C8_WeaponsAscending ==
    (readResult.fn \in {"buildsByUserId", "buildsByWeaponId"} /\ ~readResult.result.threw) =>
        \A n \in 1..Len(readResult.result.value) :
            LET w == WeaponIdsOf(readResult.result.value[n])
                raw == parseWeapons(readRaw[n].weapons)
            IN  /\ \A i, j \in 1..Len(w) : i < j => w[i] <= w[j]
                /\ SameElements(w, [i \in 1..Len(raw) |-> raw[i].weaponSplId])

\* C8 witness: buildsByWeaponId returned a build whose weapons were inserted as
\* 45, 40 and listed by the blob as 45, 40; the result lists 40, 45.
C8_Witness ==
    /\ readResult.fn = "buildsByWeaponId" /\ ~readResult.result.threw
    /\ Len(readResult.result.value) >= 1
    /\ WeaponsOf(Db, readRaw[1].id) = <<[buildId |-> readRaw[1].id, weaponSplId |-> 45],
                                        [buildId |-> readRaw[1].id, weaponSplId |-> 40]>>
    /\ parseWeapons(readRaw[1].weapons)[1].weaponSplId = 45
    /\ WeaponIdsOf(readResult.result.value[1]) = <<40, 45>>

\* The modes of modesShort that occur in arr, each once, in modesShort order.
MembersInTableOrder(arr) == SelectSeq(modesShort, LAMBDA m : m \in Range(arr))

\* The elements of arr, duplicates kept, in modesShort order.
ElementsInTableOrder(arr) ==
    LET Pos(m) == IndexOf(modesShort, m)
        Below(m) == Cardinality({i \in 1..Len(arr) : Pos(arr[i]) < Pos(m)})
        Count(m) == Cardinality({i \in 1..Len(arr) : arr[i] = m})
    IN  [k \in 1..Len(arr) |->
            CHOOSE m \in Range(arr) : Below(m) < k /\ k <= Below(m) + Count(m)]

NonEmptyModes == mStored # NotRun /\ mModes # NULL /\ mModes.array # <<>>

\* C9 as claimed: any two non-empty inputs with the same set of members are stored
\* as the identical value, the members listed in modesShort order.
C9_SameSetSameText ==
    NonEmptyModes =>
        /\ mStored.modes = [text |-> JSON_stringify(MembersInTableOrder(mModes.array))]
        /\ \A other \in ModeArrays :
            (other # <<>> /\ Range(other) = Range(mModes.array))
                => encodeModes([array |-> other]) = mStored.modes

\* C9 amended: any two non-empty inputs that are reorderings of one another (same
\* members, each the same number of times) are stored as the identical value, the
\* input's elements, duplicates kept, listed in modesShort order.
C9_SameElementsSameText ==
    NonEmptyModes =>
        /\ mStored.modes = [text |-> JSON_stringify(ElementsInTableOrder(mModes.array))]
        /\ \A other \in ModeArrays :
            SameElements(other, mModes.array)
                => encodeModes([array |-> other]) = mStored.modes

\* C9 witness: the input [RM, TW, RM] was stored as ["TW","RM","RM"].
C9_Witness ==
    /\ mStored # NotRun
    /\ mModes = [array |-> <<"RM", "TW", "RM">>]
    /\ mStored.modes = [text |-> <<"[", "\"TW\"", ",", "\"RM\"", ",", "\"RM\"", "]">>]

C11_ReplaceMissingId ==
    /\ (AtPc("updateByReplacing", "create") /\ build.id \notin IdsIn(pre)) => Db = pre
    /\ (Leaving("updateByReplacing", "return") /\ build.id \notin IdsIn(pre)) =>
        /\ tx = <<>>
        /\ pre.Build \subseteq tblBuild
        /\ \A other \in IdsIn(pre) :
            /\ WeaponsOf(Db, other) = WeaponsOf(pre, other)
            /\ AbilitiesOf(Db, other) = AbilitiesOf(pre, other)
        /\ Cardinality(tblBuild) = Cardinality(pre.Build) + 1
        /\ Len(tblBuildWeapon) = Len(pre.BuildWeapon) + Len(build.weaponSplIds)
        /\ Len(tblBuildAbility) = Len(pre.BuildAbility) + AbilityCount
        /\ \E new \in IdsIn(Db) \ IdsIn(pre) : HoldsComplete(Db, new, build)

\* C11 witness: updateByReplacing was called with id 2 while only build 1 was
\* stored, and returns with both build 1 and the new build in storage.
C11_Witness ==
    /\ Leaving("updateByReplacing", "return")
    /\ build.id = 2 /\ IdsIn(pre) = {1}
    /\ Cardinality(tblBuild) = 2
    /\ pre.Build \subseteq tblBuild

\* The n-th row of the last query result carries an ability blob that does not
\* hold exactly 12 cells.
BadRow(n) == Len(JsonArrayElems(readRaw[n].abilities, ObjectWidth(3))) # AbilityCount

\* C12: a shape error aborts the whole read: if any row returned by the query of
\* buildsByUserId or buildsByWeaponId carries an ability blob without exactly 12
\* cells, the call ends with the shape error as dbAbilitiesToArrayOfArrays threw it
\* and returns no builds at all; if every row carries 12 cells, the call returns
\* one build per row.
C12_ShapeErrorAbortsRead ==
    readResult.fn \in {"buildsByUserId", "buildsByWeaponId"} =>
        /\ (\E n \in 1..Len(readRaw) : BadRow(n)) => readResult.result = ShapeError
        /\ (\A n \in 1..Len(readRaw) : ~BadRow(n)) =>
            /\ ~readResult.result.threw
            /\ Len(readResult.result.value) = Len(readRaw)

\* C12 witness: the query of buildsByUserId returned two rows, the first with its
\* 12 cells and the second with 11; the call ended with the shape error.
C12_Witness ==
    /\ readResult.fn = "buildsByUserId"
    /\ Len(readRaw) = 2 /\ ~BadRow(1) /\ BadRow(2)
    /\ Len(AbilitiesOf(Db, readRaw[2].id)) = 11
    /\ readResult.result = ShapeError

\* The ids of the builds the last list call returned.
ReturnedIds == {readResult.result.value[i].id : i \in 1..Len(readResult.result.value)}

\* The ids of the stored builds that have a weapon row with an identifier of ws.
FiledUnder(db, ws) ==
    {id \in IdsIn(db) : \E i \in 1..Len(db.BuildWeapon) :
        db.BuildWeapon[i].buildId = id /\ db.BuildWeapon[i].weaponSplId \in ws}

Min(a, b) == IF a < b THEN a ELSE b

\* C13: sentinel substitution in buildsByWeaponId: for a weaponId with an alternate
\* identifier the builds filed under either identifier are the ones returned (all
\* of them up to the limit); for a weaponId without one the query runs with
\* altWeaponId = -1 and every returned build has a weapon row equal to weaponId, so
\* no build is matched through the sentinel (and the builds filed under weaponId
\* are all returned up to the limit).
C13_SentinelNeverMatches ==
    (readResult.fn = "buildsByWeaponId" /\ ~readResult.result.threw) =>
        LET w == readResult.weaponId
            hasAlt == w \in DOMAIN weaponIdToAltId
            either == IF hasAlt THEN {w, weaponIdToAltId[w]} ELSE {w}
        IN  /\ hasAlt => readResult.altWeaponId = weaponIdToAltId[w]
            /\ ~hasAlt => readResult.altWeaponId = -1
            /\ ReturnedIds \subseteq FiledUnder(Db, either)
            /\ Cardinality(ReturnedIds) = Len(readResult.result.value)
            /\ Len(readResult.result.value)
                 = Min(readResult.limit, Cardinality(FiledUnder(Db, either)))

\* C13 witness: buildsByWeaponId(1200), a weapon without alternate, ran with
\* altWeaponId = -1 on a storage of two builds and returned the one filed under 1200
\* and not the other.
C13_Witness ==
    /\ readResult.fn = "buildsByWeaponId" /\ ~readResult.result.threw
    /\ readResult.weaponId = 1200 /\ readResult.altWeaponId = -1
    /\ readResult.limit = 2
    /\ Cardinality(tblBuild) = 2
    /\ Cardinality(ReturnedIds) = 1
    /\ ReturnedIds = FiledUnder(Db, {1200})

\* C14: deleteById(id) runs one delete statement, for the build row of id, and
\* returns with no build row, no weapon row and no ability row filed under id in
\* storage, every other build being as it was; and at every moment of any sequence
\* of create, updateByReplacing and deleteById calls every weapon row and every
\* ability row references a build id that has a build row.
C14_DeleteCascades ==
    /\ Leaving("deleteById", "return") =>
        /\ HoldsNothing(Db, build.id)
        /\ Db = deleteByIdStm_run(pre, build.id)
        /\ OthersKept(pre, Db, build.id)
    /\ \A i \in 1..Len(tblBuildWeapon) : tblBuildWeapon[i].buildId \in IdsIn(Db)
    /\ \A i \in 1..Len(tblBuildAbility) : tblBuildAbility[i].buildId \in IdsIn(Db)

\* C14 witness: deleteById(1) returns on a storage that held two builds; the weapon
\* and ability rows of build 1 are gone with its build row and build 2 is complete.
C14_Witness ==
    /\ Leaving("deleteById", "return")
    /\ build.id = 1 /\ IdsIn(pre) = {1, 2}
    /\ WeaponsOf(pre, 1) # <<>> /\ Len(AbilitiesOf(pre, 1)) = AbilityCount
    /\ IdsIn(Db) = {2}
    /\ Len(tblBuildAbility) = AbilityCount

\* C15: no matching rows is a normal outcome: countByUserId returns the number 0
\* (it does not throw and does not return an absent value) when the count query
\* yields no row or the owner has no builds, and buildsByUserId and buildsByWeaponId
\* return the empty sequence when their query yields no rows.
C15_NoRowsIsNormal ==
    /\ readResult.fn = "countByUserId" =>
        /\ readResult.result # Undefined /\ readResult.result # NULL
        /\ (\/ readResult.row = Undefined
            \/ ~\E b \in tblBuild : b.ownerId = readResult.userId)
                => readResult.result = [num |-> 0]
    /\ (readResult.fn \in {"buildsByUserId", "buildsByWeaponId"} /\ readRaw = <<>>)
        => readResult.result = [threw |-> FALSE, value |-> <<>>]

\* C15 witness: the count query yielded no row for an owner without builds while
\* another owner has one, and countByUserId returned 0.
C15_Witness ==
    /\ readResult.fn = "countByUserId"
    /\ readResult.row = Undefined
    /\ tblBuild # {} /\ ~\E b \in tblBuild : b.ownerId = readResult.userId
    /\ readResult.result = [num |-> 0]

\* The weapon rows create has to insert for the weapon list w under the id `id`:
\* one per position of w, in the order of w.
WeaponRowsFor(id, w) == [i \in 1..Len(w) |-> [buildId |-> id, weaponSplId |-> w[i]]]

\* The weapon table as it was when the running create was entered.
WeaponsOnEntry == tx[Len(tx)].snap.BuildWeapon

\* C16: weapon inserts in create: for an input weapon list w of length n the weapon
\* table grows by exactly the n rows (generated id, w[i]), i = 1..n in this order,
\* duplicates of w included; none is inserted before the build-row insert, and
\* while they are inserted no ability cell of the build exists; when the first
\* ability cell is inserted, and when create returns, all n are there.
C16_WeaponInserts ==
    /\ AtPc("create", "createBuild") =>
        /\ createdBuild = NoBuild
        /\ tblBuildWeapon = WeaponsOnEntry
    /\ AtPc("create", "createBuildWeapon") =>
        /\ createdBuild \in tblBuild
        /\ weaponI < Len(build.weaponSplIds)
        /\ tblBuildWeapon = WeaponsOnEntry \o
             SubSeq(WeaponRowsFor(createdBuild.id, build.weaponSplIds), 1, weaponI)
        /\ AbilitiesOf(Db, createdBuild.id) = <<>>
    /\ (AtPc("create", "createBuildAbility") \/ AtPc("create", "after")) =>
        /\ createdBuild \in tblBuild
        /\ tblBuildWeapon = WeaponsOnEntry \o WeaponRowsFor(createdBuild.id, build.weaponSplIds)
    /\ AtPc("create", "return") =>
        /\ WeaponsOf(Db, createdBuild.id) = WeaponRowsFor(createdBuild.id, build.weaponSplIds)
        /\ Len(WeaponsOf(Db, createdBuild.id)) = Len(build.weaponSplIds)

\* C16 witness: create returns for the weapon list [40, 40] on a storage that held
\* a build: two weapon rows (generated id, 40) were added after the older rows.
C16_Witness ==
    /\ Leaving("create", "return")
    /\ build.weaponSplIds = <<40, 40>>
    /\ pre.BuildWeapon # <<>>
    /\ tblBuildWeapon = pre.BuildWeapon \o
         << [buildId |-> createdBuild.id, weaponSplId |-> 40],
            [buildId |-> createdBuild.id, weaponSplId |-> 40] >>

GeneratedIds(builds) == (MaxIdIn(builds) + 1)..(MaxIdIn(builds) + 2)

\* The ids a successful updateByReplacing(b) may file its new build under.
ReplaceIds(db, b) == GeneratedIds({x \in db.Build : x.id # b.id})

\* No call is running, no call has thrown and nothing was read since the storage
\* last changed: every storage the calls can leave appears in such a state.
Settled == Idle /\ readResult = NoRead /\ outcome.status # "threw"

\* A returning updateByReplacing has changed the storage as its statements,
\* run to their end, change it.
ReplaceAgrees ==
    Leaving("updateByReplacing", "return")
        => Db = updateByReplacing_effect(pre, build, createdBuild.id)

\* C18 as claimed: a successful updateByReplacing(b) on a storage holding a build
\* with id b.id leaves the number of build rows unchanged, and the build it writes
\* is the one a later updateByReplacing passing the same b.id replaces (it is filed
\* under b.id), so that two successive replaces with one id leave no more builds
\* than there were.
C18_ReplaceInPlace ==
    /\ (Leaving("updateByReplacing", "return") /\ build.id \in IdsIn(pre)) =>
        /\ Cardinality(tblBuild) = Cardinality(pre.Build)
        /\ HoldsComplete(Db, build.id, build)
    /\ Settled => \A id \in IdsIn(Db), a1, a2 \in CreateArgs :
        \A n1 \in ReplaceIds(Db, WithId(a1, id)) :
            LET d1 == updateByReplacing_effect(Db, WithId(a1, id), n1)
            IN  \A n2 \in ReplaceIds(d1, WithId(a2, id)) :
                    Cardinality(updateByReplacing_effect(d1, WithId(a2, id), n2).Build)
                        <= Cardinality(tblBuild)

\* C18 amended: a successful updateByReplacing(b) on a storage holding a build with
\* id b.id leaves the number of build rows unchanged: the build of b.id is removed
\* and one complete build is written under a newly generated id, which need not be
\* b.id.  A later updateByReplacing passing the same b.id replaces that build when
\* its generated id was b.id, and otherwise finds no build of that id and adds one
\* build.
C18_ReplaceKeepsCount ==
    /\ (Leaving("updateByReplacing", "return") /\ build.id \in IdsIn(pre)) =>
        /\ Cardinality(tblBuild) = Cardinality(pre.Build)
        /\ createdBuild.id \notin IdsIn(pre) \ {build.id}
        /\ HoldsComplete(Db, createdBuild.id, build)
        /\ createdBuild.id # build.id => HoldsNothing(Db, build.id)
    /\ ReplaceAgrees
    /\ Settled => \A id \in IdsIn(Db), a1, a2 \in CreateArgs :
        \A n1 \in ReplaceIds(Db, WithId(a1, id)) :
            LET d1 == updateByReplacing_effect(Db, WithId(a1, id), n1)
            IN  /\ Cardinality(d1.Build) = Cardinality(tblBuild)
                /\ \A n2 \in ReplaceIds(d1, WithId(a2, id)) :
                    LET d2 == updateByReplacing_effect(d1, WithId(a2, id), n2)
                    IN  /\ HoldsComplete(d2, n2, a2)
                        /\ Cardinality(d2.Build) =
                            IF n1 = id THEN Cardinality(tblBuild) ELSE Cardinality(tblBuild) + 1
                        /\ n1 # id => HoldsComplete(d2, n1, a1)

\* C18 witness: updateByReplacing returns on a storage that held the build of the
\* id passed; the new build is filed under another id, and the number of builds is
\* as before.
C18_Witness ==
    /\ Leaving("updateByReplacing", "return")
    /\ build.id \in IdsIn(pre)
    /\ createdBuild.id # build.id
    /\ HoldsNothing(Db, build.id)
    /\ HoldsComplete(Db, createdBuild.id, build)
    /\ Cardinality(tblBuild) = Cardinality(pre.Build)

\* Every build of `was` is in `now` with its build row, weapon rows and ability rows.
AllKept(was, now) ==
    /\ was.Build \subseteq now.Build
    /\ \A id \in IdsIn(was) :
        /\ WeaponsOf(now, id) = WeaponsOf(was, id)
        /\ AbilitiesOf(now, id) = AbilitiesOf(was, id)

\* What is stored of build id, its generated id set aside: the build row, the
\* weapon identifiers in insertion order, and the ability cells.
Contents(db, id) ==
    LET b == CHOOSE x \in db.Build : x.id = id
        w == WeaponsOf(db, id)
        a == AbilitiesOf(db, id)
    IN  [row |-> [f \in DOMAIN b \ {"id"} |-> b[f]],
         weapons |-> [i \in 1..Len(w) |-> w[i].weaponSplId],
         cells |-> {[gearType |-> a[i].gearType, slotIndex |-> a[i].slotIndex,
                     ability |-> a[i].ability] : i \in 1..Len(a)}]

\* C19: independence across build ids: when create, updateByReplacing(b) or
\* deleteById(id) returns or throws, the build row, weapon rows and ability rows of
\* every stored build whose id differs from the one operated on (b.id, id; for
\* create, of every stored build) are as they were before the call; and two
\* successful replace operations on the ids of two stored builds, one after the
\* other, leave in either order the same contents for both builds (each under its
\* generated id) and every other build untouched.
C19_IndependentAcrossIds ==
    /\ (Len(stack) = 1 /\ Top.pc \in {"return", "rethrow"}) =>
        IF Top.fn = "create" THEN AllKept(pre, Db) ELSE OthersKept(pre, Db, build.id)
    /\ ReplaceAgrees
    /\ Settled => \A i, j \in IdsIn(Db) : i < j => \A A, B \in CreateArgs :
        LET bi == WithId(A, i)
            bj == WithId(B, j)
        IN  \A a1 \in ReplaceIds(Db, bi), b2 \in ReplaceIds(Db, bj) :
            LET d1 == updateByReplacing_effect(Db, bi, a1)
                d2 == updateByReplacing_effect(Db, bj, b2)
            IN  \A b1 \in ReplaceIds(d1, bj), a2 \in ReplaceIds(d2, bi) :
                LET d12 == updateByReplacing_effect(d1, bj, b1)
                    d21 == updateByReplacing_effect(d2, bi, a2)
                IN  /\ IdsIn(d12) = (IdsIn(Db) \ {i, j}) \cup {a1, b1} /\ a1 # b1
                    /\ IdsIn(d21) = (IdsIn(Db) \ {i, j}) \cup {a2, b2} /\ a2 # b2
                    /\ Contents(d12, a1) = Contents(d21, a2)
                    /\ Contents(d12, b1) = Contents(d21, b2)
                    /\ \A k \in IdsIn(Db) \ {i, j} :
                        /\ Contents(d12, k) = Contents(Db, k)
                        /\ Contents(d21, k) = Contents(Db, k)

\* C19 witness: updateByReplacing of build 2 returns on a storage holding builds 1
\* and 2: build 1 is there with all its rows, unchanged.
C19_Witness ==
    /\ Leaving("updateByReplacing", "return")
    /\ build.id = 2 /\ IdsIn(pre) = {1, 2}
    /\ Contents(Db, 1) = Contents(pre, 1)
    /\ Len(AbilitiesOf(Db, 1)) = AbilityCount
    /\ Contents(Db, createdBuild.id) # Contents(pre, 2)

====
